---- MODULE Spec2Model ----
(***************************************************************************)
(* Model of crates/completions/src/querier.rs: the link-completion query   *)
(* pipeline  get_named_entities -> MatchableNamedEntity::from -> collect   *)
(* -> fuzzy_match -> unwrap to NamedEntity.                                *)
(*                                                                         *)
(* Strings are sequences of one-character strings.  An Option is a         *)
(* sequence of length at most one: None is <<>>, Some(x) is <<x>>.  Enum   *)
(* variants are tuples whose first element is the variant name.            *)
(***************************************************************************)
EXTENDS Bags, FiniteSets, Integers, Sequences, TLC

VARIABLES
    vault,         \* Vec returned by vault.select_referenceable_nodes(None)
    link_query,    \* the LinkQuery argument of Querier::query
    pc,            \* position of the query call
    parts,         \* slots already written by the workers of the first parallel stage
    matchables,    \* matchables.collect::<Vec<_>>()
    query_string,  \* link_query_string(link_query), the filter_text of fuzzy_match
    matched,       \* Vec<(MatchableNamedEntity, u32)> returned by fuzzy_match
    out,           \* slots already written by the workers of the final parallel map
    result,        \* the sequence of NamedEntity the caller obtains
    run,           \* "first" or "second" call of query on the same vault
    prev           \* result of the first call, kept to compare the second with

vars == <<vault, link_query, pc, parts, matchables, query_string, matched, out,
          result, run, prev>>

(***************************************************************************)
(* Bounds and input domains                                                *)
(***************************************************************************)
MaxNodes == 3

None == <<>>

Some(x) == <<x>>

\* Paths are sequences of components; a component is a string.
P_a == << <<"b">>, <<"a">> >>

P_Ba == << <<"B", "á">> >>

P_up == << <<"b">>, <<".", ".">> >>

\* Referenceable (vault crate): the variants querier.rs names, and one of the others.
RefFile(path) == [kind |-> "File", path |-> path, data |-> <<>>]

RefHeading(path, heading_text) == [kind |-> "Heading", path |-> path, data |-> heading_text]

RefIndexedBlock(path, index) == [kind |-> "IndexedBlock", path |-> path, data |-> index]

RefTag(path, tag) == [kind |-> "Tag", path |-> path, data |-> tag]

NodeSet ==
    { RefFile(P_a), RefFile(P_Ba), RefHeading(P_a, <<"A">>),
      RefIndexedBlock(P_Ba, <<"A">>), RefTag(P_a, <<"a">>), RefFile(P_up) }

RECURSIVE SeqsUpTo(_, _)
SeqsUpTo(S, n) ==
    IF n = 0 THEN { <<>> }
    ELSE LET shorter == SeqsUpTo(S, n - 1)
         IN  shorter \cup { Append(s, x) : s \in shorter, x \in S }

Vaults == SeqsUpTo(NodeSet, MaxNodes)

\* parser::InfileRef
InfileHeading(h) == <<"Heading", h>>

InfileIndex(i) == <<"Index", i>>

FileRefs == { <<>>, <<"a">>, <<"A">>, <<"A", " ", "b">> }

InfileRefs ==
    { None, Some(InfileHeading(<<"A">>)), Some(InfileHeading(<<>>)),
      Some(InfileIndex(<<"a">>)) }

\* parser::LinkQuery
LinkQuery(file_ref, infile_ref) == [file_ref |-> file_ref, infile_ref |-> infile_ref]

LinkQueries == { LinkQuery(f, i) : f \in FileRefs, i \in InfileRefs }

(***************************************************************************)
(* Generic sequence helpers                                                *)
(***************************************************************************)
MapSeq(F(_), s) == [i \in 1..Len(s) |-> F(s[i])]

RECURSIVE Flatten(_)
Flatten(ss) == IF ss = <<>> THEN <<>> ELSE Head(ss) \o Flatten(Tail(ss))

Last(s) == s[Len(s)]

(***************************************************************************)
(* NamedEntity and the collector                                           *)
(***************************************************************************)
\* NamedEntityInfo
File == <<"File">>

Heading(text) == <<"Heading", text>>

IndexedBlock(id) == <<"IndexedBlock", id>>

\* struct NamedEntity(pub &Path, pub NamedEntityInfo)
NamedEntity(path, info) == [path |-> path, info |-> info]

\* Variant of NodeToEntity whose wildcard arm lets a tag through as a heading.
NodeToEntityKeepsTags(it) ==
    CASE it.kind = "File" -> Some(NamedEntity(it.path, File))
      [] it.kind = "IndexedBlock" -> Some(NamedEntity(it.path, IndexedBlock(it.data)))
      [] OTHER -> Some(NamedEntity(it.path, Heading(it.data)))

\* The closure of flat_map in get_named_entities: one node to Option<NamedEntity>.
NodeToEntity(it) ==
    CASE it.kind = "File" -> Some(NamedEntity(it.path, File))
      [] it.kind = "Heading" -> Some(NamedEntity(it.path, Heading(it.data)))
      [] it.kind = "IndexedBlock" -> Some(NamedEntity(it.path, IndexedBlock(it.data)))
      [] OTHER -> None

(***************************************************************************)
(* link_query_string                                                       *)
(***************************************************************************)
\* Variant of link_query_string that formats an index like a heading.
link_query_string_no_caret(q) ==
    IF q.infile_ref = None THEN q.file_ref
    ELSE q.file_ref \o <<"#">> \o q.infile_ref[1][2]

link_query_string(q) ==
    IF q.infile_ref = None THEN q.file_ref
    ELSE LET r == q.infile_ref[1]
         IN  IF r[1] = "Heading" THEN q.file_ref \o <<"#">> \o r[2]
             ELSE q.file_ref \o <<"#", "^">> \o r[2]

(***************************************************************************)
(* MatchableNamedEntity                                                    *)
(***************************************************************************)
\* Path::file_name: the final component, None when there is none or it is "..".
file_name(path) ==
    IF path = <<>> \/ Last(path) = <<".", ".">> THEN None ELSE Some(Last(path))

\* struct MatchableNamedEntity(String, NamedEntity)
MatchableNamedEntity(match_string, value) == <<match_string, value>>

RECURSIVE JoinPath(_)
JoinPath(path) ==
    IF Len(path) = 1 THEN path[1] ELSE path[1] \o <<"/">> \o JoinPath(Tail(path))

\* Variant of MatchableFrom that uses the whole path instead of its file name.
MatchableFromFullPath(value) ==
    LET file_ref == JoinPath(value.path)
        match_string ==
            CASE value.info[1] = "Heading" -> file_ref \o <<"#">> \o value.info[2]
              [] value.info[1] = "IndexedBlock" -> file_ref \o <<"#", "^">> \o value.info[2]
              [] OTHER -> file_ref
    IN  MatchableNamedEntity(match_string, value)

\* impl From<NamedEntity> for MatchableNamedEntity, once file_name() is Some.
MatchableFrom(value) ==
    LET file_ref == file_name(value.path)[1]
        match_string ==
            CASE value.info[1] = "Heading" -> file_ref \o <<"#">> \o value.info[2]
              [] value.info[1] = "IndexedBlock" -> file_ref \o <<"#", "^">> \o value.info[2]
              [] OTHER -> file_ref
    IN  MatchableNamedEntity(match_string, value)

\* value.0.file_name().unwrap() panics on None.
FromPanics(value) == file_name(value.path) = None

\* Variant of NamedEntityFrom that rebuilds the entity from its path alone.
NamedEntityFromPathOnly(value) == NamedEntity(value[2].path, File)

\* impl From<MatchableNamedEntity> for NamedEntity
NamedEntityFrom(value) == value[2]

\* impl Matchable for MatchableNamedEntity
match_string(m) == m[1]

(***************************************************************************)
(* nucleo_matcher as fuzzy_match calls it.  The filter text is split at     *)
(* white space into atoms; it holds none of the atom markers ' ! $ \ and   *)
(* no word of it starts with ^, so every atom is a fuzzy atom.             *)
(***************************************************************************)
is_uppercase(c) == c \in {"A", "B"}

to_lowercase(c) == CASE c = "A" -> "a" [] c = "B" -> "b" [] OTHER -> c

\* Unicode normalisation of one character: the accent is removed.
normalize(c) == IF c = "á" THEN "a" ELSE c

\* CaseMatching::{Respect, Ignore, Smart}: is the atom matched ignoring case?
IgnoreCase(needle, case_matching) ==
    CASE case_matching = "Ignore" -> TRUE
      [] case_matching = "Respect" -> FALSE
      [] OTHER -> \A k \in 1..Len(needle) : ~is_uppercase(needle[k])

\* Normalization::{Never, Smart}: are haystack characters normalised?
Normalizes(needle, normalization) ==
    CASE normalization = "Never" -> FALSE
      [] OTHER -> \A k \in 1..Len(needle) : normalize(needle[k]) = needle[k]

\* pattern_atoms: the words of the filter text between white space.
RECURSIVE Words(_)
Words(text) ==
    IF text = <<>> THEN <<>>
    ELSE IF Head(text) = " " THEN Words(Tail(text))
    ELSE LET rest == Words(Tail(text))
         IN  IF Len(text) > 1 /\ text[2] # " "
             THEN << <<Head(text)>> \o Head(rest) >> \o Tail(rest)
             ELSE << <<Head(text)>> >> \o rest

\* Atom::parse of one word: case and normalisation are settled for each atom.
AtomParse(word, case_matching, normalization) ==
    LET ic == IgnoreCase(word, case_matching)
    IN  [needle |-> IF ic THEN MapSeq(to_lowercase, word) ELSE word,
         ignore_case |-> ic,
         normalize |-> Normalizes(word, normalization)]

\* pattern::Pattern::parse(filter_text, case_matching, normalization): the atoms.
PatternParse(filter_text, case_matching, normalization) ==
    MapSeq(LAMBDA w : AtomParse(w, case_matching, normalization), Words(filter_text))

\* The haystack as the matcher compares it with the needle of an atom.
Haystack(atom, text) ==
    LET n(c) == IF atom.normalize THEN normalize(c) ELSE c
        l(c) == IF atom.ignore_case THEN to_lowercase(c) ELSE c
        f(c) == l(n(c))
    IN  MapSeq(f, text)

\* Bonus of matching the haystack character at position j: start of the text or
\* after a non-word character.
Bonus(hay, j) ==
    IF j = 1 THEN 10 ELSE IF hay[j - 1] \in {"#", "^"} THEN 8 ELSE 0

Max2(a, b) == IF a = None THEN b ELSE IF b = None THEN a ELSE IF a[1] >= b[1] THEN a ELSE b

Plus(opt, n) == IF opt = None THEN None ELSE Some(opt[1] + n)

\* Best score of aligning needle[i..] with hay[j..] as a subsequence, None if there
\* is no alignment: 16 for each matched character, the position bonus (doubled for
\* the first needle character), 4 for a consecutive match, -3 to open a gap after
\* a match and -1 to extend it.
RECURSIVE Align(_, _, _, _, _)
Align(needle, hay, i, j, prev_matched) ==
    IF i > Len(needle) THEN Some(0)
    ELSE IF Len(hay) - j < Len(needle) - i THEN None
    ELSE LET gap == IF i = 1 THEN 0 ELSE IF prev_matched THEN 3 ELSE 1
             skip == Plus(Align(needle, hay, i, j + 1, FALSE), 0 - gap)
             gain == 16 + (IF i = 1 THEN 2 * Bonus(hay, j) ELSE Bonus(hay, j))
                        + (IF prev_matched /\ i > 1 THEN 4 ELSE 0)
             take == IF needle[i] = hay[j]
                     THEN Plus(Align(needle, hay, i + 1, j + 1, TRUE), gain)
                     ELSE None
         IN  Max2(take, skip)

\* Atom::score
AtomScore(atom, text) == Align(atom.needle, Haystack(atom, text), 1, 1, FALSE)

\* Pattern::score: the sum of the atoms' scores, None as soon as an atom does not
\* match, Some(0) for a pattern without atoms.
RECURSIVE PatternScore(_, _)
PatternScore(pattern, text) ==
    IF pattern = <<>> THEN Some(0)
    ELSE LET s == AtomScore(Head(pattern), text)
         IN  IF s = None THEN None ELSE Plus(PatternScore(Tail(pattern), text), s[1])

\* Stable insertion of a (item, score) pair into a list sorted by descending score.
RECURSIVE InsertByScore(_, _)
InsertByScore(sorted, x) ==
    IF sorted = <<>> THEN <<x>>
    ELSE IF Head(sorted)[2] >= x[2] THEN <<Head(sorted)>> \o InsertByScore(Tail(sorted), x)
    ELSE <<x>> \o sorted

\* items.sort_by_key(|(_, score)| Reverse(*score)), a stable sort.
RECURSIVE SortByScore(_)
SortByScore(pairs) ==
    IF pairs = <<>> THEN <<>>
    ELSE InsertByScore(SortByScore(SubSeq(pairs, 1, Len(pairs) - 1)), Last(pairs))

\* Pattern::match_list: without atoms every item with score 0, in input order;
\* otherwise the items that score, sorted by descending score.
match_list(pattern, items) ==
    IF pattern = <<>> THEN MapSeq(LAMBDA it : <<it, 0>>, items)
    ELSE LET scored(it) ==
                 LET s == PatternScore(pattern, match_string(it))
                 IN  IF s = None THEN None ELSE Some(<<it, s[1]>>)
         IN  SortByScore(Flatten(MapSeq(scored, items)))

\* Variant of fuzzy_match that scores every item and does not sort.
fuzzy_match_unsorted(filter_text, items) ==
    LET pattern == PatternParse(filter_text, "Smart", "Smart")
        scored(it) ==
            LET s == PatternScore(pattern, match_string(it))
            IN  IF s = None THEN None ELSE Some(<<it, s[1]>>)
    IN  Flatten(MapSeq(scored, items))

\* Variant of fuzzy_match that keeps an item that does not match, with score 0.
fuzzy_match_keeps_unmatched(filter_text, items) ==
    LET pattern == PatternParse(filter_text, "Smart", "Smart")
        scored(it) ==
            LET s == PatternScore(pattern, match_string(it))
            IN  IF s = None THEN <<it, 0>> ELSE <<it, s[1]>>
    IN  SortByScore(MapSeq(scored, items))

\* Variant of fuzzy_match that returns nothing for an empty filter text.
fuzzy_match_empty_matches_nothing(filter_text, items) ==
    IF Words(filter_text) = <<>> THEN <<>>
    ELSE match_list(PatternParse(filter_text, "Smart", "Smart"), items)

\* Variant of fuzzy_match that settles the case policy once for the whole filter
\* text instead of once for each atom.
fuzzy_match_case_of_whole_text(filter_text, items) ==
    match_list(PatternParse(filter_text,
                            IF IgnoreCase(filter_text, "Smart") THEN "Ignore" ELSE "Respect",
                            "Smart"), items)

\* fuzzy_match(filter_text, items)
fuzzy_match(filter_text, items) ==
    match_list(PatternParse(filter_text, "Smart", "Smart"), items)

(***************************************************************************)
(* The two parallel stages: each worker step handles one item and writes   *)
(* the outcome to the slot of its index.                                   *)
(***************************************************************************)
Slot(i, x) == [idx |-> i, val |-> x]

Processed(slots) == { slots[k].idx : k \in DOMAIN slots }

\* Variant of Place that appends the outcome in the order the workers finish.
PlaceByArrival(slots, i, x) == Append(slots, Slot(i, x))

\* The order-preserving consumer: the outcome of item i lands at position i.
RECURSIVE Place(_, _, _)
Place(slots, i, x) ==
    IF slots = <<>> THEN << Slot(i, x) >>
    ELSE IF Head(slots).idx < i THEN <<Head(slots)>> \o Place(Tail(slots), i, x)
    ELSE << Slot(i, x) >> \o slots

Values(slots) == Flatten(MapSeq(LAMBDA p : p.val, slots))

(***************************************************************************)
(* Querier::query                                                          *)
(***************************************************************************)
Init ==
    /\ vault \in Vaults
    /\ link_query \in LinkQueries
    /\ pc = "collect"
    /\ parts = <<>>
    /\ matchables = <<>>
    /\ query_string = <<>>
    /\ matched = <<>>
    /\ out = <<>>
    /\ result = <<>>
    /\ run = "first"
    /\ prev = <<>>

\* One item of get_named_entities().map(MatchableNamedEntity::from).
CollectItem(i) ==
    /\ pc = "collect"
    /\ i \notin Processed(parts)
    /\ LET e == NodeToEntity(vault[i])
       IN  /\ IF e = None THEN TRUE ELSE ~FromPanics(e[1])
           /\ parts' = Place(parts, i, MapSeq(MatchableFrom, e))
    /\ UNCHANGED <<vault, link_query, pc, matchables, query_string, matched, out,
                   result, run, prev>>

\* The same step on an entity whose path has no file name: unwrap() panics and
\* the panic unwinds out of query.
CollectItemPanics(i) ==
    /\ pc = "collect"
    /\ i \notin Processed(parts)
    /\ LET e == NodeToEntity(vault[i])
       IN  IF e = None THEN FALSE ELSE FromPanics(e[1])
    /\ pc' = "panicked"
    /\ parts' = <<>>
    /\ UNCHANGED <<vault, link_query, matchables, query_string, matched, out,
                   result, run, prev>>

\* matchables.collect::<Vec<_>>() returns once every item is handled.
CollectVec ==
    /\ pc = "collect"
    /\ Processed(parts) = 1..Len(vault)
    /\ matchables' = Values(parts)
    /\ parts' = <<>>
    /\ pc' = "match"
    /\ UNCHANGED <<vault, link_query, query_string, matched, out, result, run, prev>>

\* fuzzy_match(&link_query_string(link_query), matchables.into_iter())
FuzzyMatch ==
    /\ pc = "match"
    /\ query_string' = link_query_string(link_query)
    /\ matched' = fuzzy_match(query_string', matchables)
    /\ pc' = "unwrap"
    /\ UNCHANGED <<vault, link_query, parts, matchables, out, result, run, prev>>

\* One item of matched.into_par_iter().map(|(it, _)| it.into()).
UnwrapItem(j) ==
    /\ pc = "unwrap"
    /\ j \notin Processed(out)
    /\ out' = Place(out, j, Some(NamedEntityFrom(matched[j][1])))
    /\ UNCHANGED <<vault, link_query, pc, parts, matchables, query_string, matched,
                   result, run, prev>>

\* The caller has consumed the indexed iterator.
Finish ==
    /\ pc = "unwrap"
    /\ Processed(out) = 1..Len(matched)
    /\ result' = Values(out)
    /\ out' = <<>>
    /\ pc' = "done"
    /\ UNCHANGED <<vault, link_query, parts, matchables, query_string, matched, run, prev>>

\* A second call of query with the same LinkQuery on the unchanged vault.
QueryAgain ==
    /\ pc = "done"
    /\ run = "first"
    /\ prev' = result
    /\ run' = "second"
    /\ pc' = "collect"
    /\ matchables' = <<>>
    /\ query_string' = <<>>
    /\ matched' = <<>>
    /\ result' = <<>>
    /\ UNCHANGED <<vault, link_query, parts, out>>

Next ==
    \/ \E i \in 1..Len(vault) : CollectItem(i)
    \/ \E i \in 1..Len(vault) : CollectItemPanics(i)
    \/ CollectVec
    \/ FuzzyMatch
    \/ \E j \in 1..Len(matched) : UnwrapItem(j)
    \/ Finish
    \/ QueryAgain

Spec == Init /\ [][Next]_vars

(***************************************************************************)
(* Vocabulary of the properties, stated from the inputs of the call        *)
(***************************************************************************)
Range(s) == { s[k] : k \in DOMAIN s }

Count(x, s) == Cardinality({ k \in DOMAIN s : s[k] = x })

Entities(ms) == MapSeq(LAMBDA m : m[2], ms)

Items(pairs) == MapSeq(LAMBDA p : p[1], pairs)

Eligible(node) == node.kind \in {"File", "Heading", "IndexedBlock"}

EntityOfNode(node) ==
    [path |-> node.path,
     info |-> IF node.kind = "File" THEN <<"File">> ELSE <<node.kind, node.data>>]

ExpectedEntities == MapSeq(EntityOfNode, SelectSeq(vault, Eligible))

Malformed(node) ==
    Eligible(node) /\ (node.path = <<>> \/ node.path[Len(node.path)] = <<".", ".">>)

Collected == pc \in {"match", "unwrap", "done"}

Scored == pc \in {"unwrap", "done"}

RECURSIVE IsSubseq(_, _)
IsSubseq(a, b) ==
    IF a = <<>> THEN TRUE
    ELSE IF b = <<>> THEN FALSE
    ELSE IF Head(a) = Head(b) THEN IsSubseq(Tail(a), Tail(b))
    ELSE IsSubseq(a, Tail(b))

HasUppercase(text) == \E k \in DOMAIN text : text[k] \in {"A", "B"}

\* The candidate text as the smart policy compares it with the word w of the
\* filter text (no modelled filter text holds an accented letter, so accents are
\* removed).
Folded(w, text) ==
    LET plain == MapSeq(normalize, text)
    IN  IF HasUppercase(w) THEN plain ELSE MapSeq(to_lowercase, plain)

\* Every word of the filter text q is a subsequence of the candidate text.
Affine(q, text) == \A w \in Range(Words(q)) : IsSubseq(w, Folded(w, text))

(***************************************************************************)
(* Properties                                                              *)
(***************************************************************************)
ScoreOf(m) == PatternScore(PatternParse(query_string, "Smart", "Smart"), m[1])

\* C1: the sequence returned by query is the scorer's sequence with the scores
\* dropped; the scorer's sequence is in descending score; candidates of equal
\* score stand in their order in the collected input; and the collected input
\* is in the vault's order whatever the order in which the workers ran.
C1_ScorerOrder ==
    /\ Collected => Entities(matchables) = ExpectedEntities
    /\ Scored =>
        /\ \A i, j \in DOMAIN matched : i < j => matched[i][2] >= matched[j][2]
        /\ \A s \in { matched[k][2] : k \in DOMAIN matched } :
              Items(SelectSeq(matched, LAMBDA p : p[2] = s))
                  = SelectSeq(matchables, LAMBDA m : ScoreOf(m) = Some(s))
    /\ pc = "done" => result = Entities(Items(matched))

\* A call that returned three entities: the first candidate of the input comes
\* last, outranked by two distinct candidates that tie.
C1_Witness ==
    /\ pc = "done"
    /\ Len(result) = 3
    /\ matched[1][2] = matched[2][2]
    /\ matched[1][1] # matched[2][1]
    /\ matched[2][2] > matched[3][2]
    /\ matched[3][1] = matchables[1]

\* C2: the query string is file_ref when infile_ref is absent, file_ref "#" h for
\* Heading(h) and file_ref "#^" i for Index(i), empty parts included.
C2_LinkQueryString ==
    Scored =>
        LET f == link_query.file_ref
            r == link_query.infile_ref
        IN  /\ r = <<>> => query_string = f
            /\ (r # <<>> /\ r[1][1] = "Heading") => query_string = f \o <<"#">> \o r[1][2]
            /\ (r # <<>> /\ r[1][1] = "Index") => query_string = f \o <<"#", "^">> \o r[1][2]

\* The query string of an index reference with an empty file_ref.
C2_Witness ==
    /\ Scored
    /\ link_query = [file_ref |-> <<>>, infile_ref |-> << <<"Index", <<"a">>>> >>]
    /\ query_string = <<"#", "^", "a">>

\* C3: the collector yields one entity for each File, Heading and IndexedBlock
\* node, carrying that node's path and text or index, as often as the vault
\* lists the node and never more, and nothing for a node of another kind.
C3_CollectExactly ==
    /\ \A k \in DOMAIN parts :
          /\ \A l \in DOMAIN parts : parts[k].idx = parts[l].idx => k = l
          /\ LET node == vault[parts[k].idx]
             IN  Entities(parts[k].val)
                     = IF Eligible(node) THEN << EntityOfNode(node) >> ELSE <<>>
    /\ Collected =>
          /\ Len(matchables) = Cardinality({ i \in DOMAIN vault : Eligible(vault[i]) })
          /\ \A e \in Range(Entities(matchables)) \cup Range(ExpectedEntities) :
                Count(e, Entities(matchables)) = Count(e, ExpectedEntities)
          /\ \A e \in Range(Entities(matchables)) : e.info[1] \in {"File", "Heading", "IndexedBlock"}

\* A vault with a file, a heading or block and a node of another kind, collected.
C3_Witness ==
    /\ pc = "match"
    /\ \E i \in DOMAIN vault : vault[i].kind = "Tag"
    /\ \E i \in DOMAIN vault : vault[i].kind = "File"
    /\ \E i \in DOMAIN vault : vault[i].kind \in {"Heading", "IndexedBlock"}
    /\ Len(matchables) = 2

\* C4: an entity whose location has no file name is reported for that entity
\* alone; the query is not aborted.
C4_MalformedEntityDoesNotAbort ==
    (\E i \in DOMAIN vault : Malformed(vault[i])) => pc # "panicked"

\* C5: the match string of every candidate is link_query_string of the LinkQuery
\* made of the file name of its location and of its kind.
C5_MatchStringLikeQueryString ==
    LET AsQuery(e) ==
            [file_ref |-> e.path[Len(e.path)],
             infile_ref |-> CASE e.info[1] = "File" -> <<>>
                              [] e.info[1] = "Heading" -> << <<"Heading", e.info[2]>> >>
                              [] e.info[1] = "IndexedBlock" -> << <<"Index", e.info[2]>> >>]
        Good(m) == m[1] = link_query_string(AsQuery(m[2]))
    IN  /\ \A k \in DOMAIN parts : \A m \in Range(parts[k].val) : Good(m)
        /\ \A m \in Range(matchables) : Good(m)

\* Candidates of the three kinds, one of them in a directory, collected.
C5_Witness ==
    /\ pc = "match"
    /\ Len(matchables) = 3
    /\ { matchables[k][2].info[1] : k \in DOMAIN matchables } = {"File", "Heading", "IndexedBlock"}
    /\ \E k \in DOMAIN matchables :
          Len(matchables[k][2].path) = 2 /\ matchables[k][1] = <<"a", "#", "A">>

\* C6: only a malformed location fails a call; a call with nothing collected or
\* nothing matching returns the empty sequence; a returned candidate has
\* affinity to the filter text, and a positive score unless that text is empty.
C6_NoMatchIsEmptyNotError ==
    /\ pc = "panicked" => \E i \in DOMAIN vault : Malformed(vault[i])
    /\ Scored =>
          \A k \in DOMAIN matched :
              /\ Affine(query_string, matched[k][1][1])
              /\ query_string # <<>> => matched[k][2] > 0
    /\ pc = "done" =>
          /\ (\A m \in Range(matchables) : ~Affine(query_string, m[1])) => result = <<>>
          /\ \A e \in Range(result) :
                \E m \in Range(matchables) : m[2] = e /\ Affine(query_string, m[1])

\* A call that collected candidates, matched none of them and returned.
C6_Witness ==
    /\ pc = "done"
    /\ Len(matchables) = 3
    /\ query_string # <<>>
    /\ result = <<>>

\* C7: with an empty filter text the scorer returns every candidate once, in
\* input order, and the query returns every collected entity.
C7_EmptyFilterMatchesAll ==
    /\ (Scored /\ query_string = <<>>) => Items(matched) = matchables
    /\ (pc = "done" /\ link_query.file_ref = <<>> /\ link_query.infile_ref = <<>>) =>
          result = ExpectedEntities

\* A call with an empty query that returned three entities.
C7_Witness ==
    /\ pc = "done"
    /\ link_query = [file_ref |-> <<>>, infile_ref |-> <<>>]
    /\ Len(result) = 3
    /\ result[1] # result[2]

\* C8: the second call on the unchanged vault returns the sequence the first
\* call returned.
C8_Deterministic == (run = "second" /\ pc = "done") => result = prev

\* A second call that returned several distinct entities.
C8_Witness ==
    /\ run = "second"
    /\ pc = "done"
    /\ Len(result) = 3
    /\ result[1] # result[2]
    /\ result[2] # result[3]

\* C9: every returned entity is a collected entity, returned no more often than
\* it was collected, and the result is no longer than the collected sequence.
C9_NoEntityTwice ==
    pc = "done" =>
        /\ Len(result) <= Len(matchables)
        /\ \A e \in Range(result) :
              /\ e \in Range(ExpectedEntities)
              /\ Count(e, result) <= Count(e, Entities(matchables))

\* A call that returned some but not all of the collected entities.
C9_Witness ==
    /\ pc = "done"
    /\ Len(matchables) = 3
    /\ Len(result) = 2
    /\ result[1] # result[2]

\* C10 as stated: the case policy follows the whole filter text: without an
\* uppercase letter in it a candidate matches whatever the case of its letters,
\* with one every letter is matched case-sensitively.
C10_SmartCaseOfFilterText ==
    (Scored /\ query_string # <<>>) =>
        \A m \in Range(matchables) :
            (m \in Range(Items(matched))) <=>
                \A w \in Range(Words(query_string)) :
                    IF HasUppercase(query_string)
                    THEN IsSubseq(w, MapSeq(normalize, m[1]))
                    ELSE IsSubseq(w, MapSeq(to_lowercase, MapSeq(normalize, m[1])))

\* C10 amended: the case policy follows each white-space separated word of the
\* filter text: a word without an uppercase letter matches whatever the case of
\* the candidate's letters, a word with one is matched case-sensitively.
C10_SmartCasePerWord ==
    (Scored /\ query_string # <<>>) =>
        \A m \in Range(matchables) :
            (m \in Range(Items(matched))) <=>
                \A w \in Range(Words(query_string)) :
                    IF HasUppercase(w)
                    THEN IsSubseq(w, MapSeq(normalize, m[1]))
                    ELSE IsSubseq(w, MapSeq(to_lowercase, MapSeq(normalize, m[1])))

\* The filter text "A b" keeps the block "Bá#^A", whose B differs from the b of
\* the filter text by case, and leaves out the heading "a#A".
C10_Witness ==
    /\ pc = "done"
    /\ query_string = <<"A", " ", "b">>
    /\ \E m \in Range(matchables) : m[1] = <<"a", "#", "A">>
    /\ Len(result) = 1
    /\ result[1].info = <<"IndexedBlock", <<"A">>>>

====
